---- MODULE Spec2Model ----
(***************************************************************************)
(* Job_autopilot: the spreadsheet-backed pipeline                          *)
(*   generate_cvs -> generate_letters -> send_applications                 *)
(* modelled as a state machine over the workbook (sheets profiles,         *)
(* applications, senders), the PDF folders (cv/, lm/) and the position of  *)
(* the one phase that is running.  Each phase is single-threaded and runs  *)
(* to completion or dies on an uncaught exception; phases can be started   *)
(* in any order, any number of times (each is a module entry point).       *)
(***************************************************************************)
EXTENDS Integers, Sequences, FiniteSets, TLC

\* ------------------------------------------------------------------ bounds
\* rows of the applications sheet
NApps == 3
\* daily_limit of every account of the senders sheet
DailyLimit == 2

\* ------------------------------------------------------- cell values
\* an empty spreadsheet cell as pandas.read_excel returns it
NaN == "nan"
\* None, for senders_df in single-account mode
None == <<>>

\* (generate_lm, email_sent) cells of a stored applications row: a fresh
\* application, and the forms one row of the sheet may have instead
Pending == <<"Y", NaN>>
RowCells == {Pending, <<"y", " ">>, <<"N", NaN>>, <<"N", "YES">>}
\* datetime.now().strftime("%d/%m/%Y %H:%M:%S"): the wall clock is an input
Stamps == {"06/11/2026 09:00:00"}
FirstStamp == "01/11/2026 08:00:00"
\* a filled profil_pro cell of the profiles sheet
SummaryText == "Ingenieure en recherche d'un premier CDI"

AppIds == 1..NApps
AccountIds == {1, 2}
\* profile_id values used by the applications sheet; profile 2 may have no
\* record in the profiles sheet
ProfileIds == {1, 2}

\* str.upper() on the cell values of the model
Upper(s) ==
  CASE s = "y" -> "Y"
    [] s = "n" -> "N"
    [] s = "yes" -> "YES"
    [] s = "dupont" -> "DUPONT"
    [] s = "Martin" -> "MARTIN"
    [] OTHER -> s

\* str.strip() on the cell values of the model
Strip(s) == IF s = " " THEN "" ELSE s

\* DataFrame.fillna(""): a NaN cell becomes the empty string
FillNa(c) == IF c = NaN THEN "" ELSE c

\* DataFrame.to_excel: an empty string is written as an empty cell
ToCell(c) == IF c = "" THEN NaN ELSE c

\* the profiles sheet: columns nom, prenom of the record of profile p
ProfNom(p) == IF p = 1 THEN "dupont" ELSE "Martin"
ProfPrenom(p) == IF p = 1 THEN "Lea" ELSE "Tom"

\* the applications sheet: profile_id and job_id of row i
RowProfile(i) == ((i - 1) % 2) + 1
RowJob(i) == ((i - 1) \div 2) + 1

VARIABLES
  profiles,      \* profile_id values that have a record in sheet profiles
  summaries,     \* sheet profiles as stored: profile -> cell profil_pro
  joboffers,     \* job_id values that have a record in sheet joboffers
  applications,  \* sheet applications as stored: row -> cells
  sentAtCol,     \* sheet applications has a sent_at column
  sendersSheet,  \* sheet senders exists
  senders,       \* sheet senders as stored: account -> cells
  cvFiles,       \* files of data/cv
  lmFiles,       \* files of data/lm
  pc,            \* "idle", or the phase that is running
  force,         \* the running phase's force argument
  todo,          \* the rows (profiles, for cv) the running loop iterates
  pos,           \* index in todo of the next iteration
  apps,          \* send_applications: the DataFrame apps
  senders_df,    \* send_applications: senders_df (None or a DataFrame)
  run,           \* how the current / last phase run stands
  mailed,        \* history: rows a message was transmitted for, ever
  remailed,      \* history: rows a message was transmitted for again
  picks,         \* history: pick_sender selections per account, this run
  sentOK,        \* history: rows whose send succeeded, this run
  failed,        \* history: rows whose send raised, this run
  reached,       \* history: rows the loop body was entered for, this run
  skipped,       \* history: rows the loop skipped with continue, this run
  wrote,         \* history: rows a letter PDF was written for, this run
  written,       \* history: PDF files written, this run
  overwrote,     \* history: PDF files written over an existing one, this run
  textCalls,     \* history: rows generate_letter_text was called for, this run
  done           \* history: builders of which a run reached its end

vars == <<profiles, summaries, joboffers, applications, sentAtCol,
          sendersSheet, senders, cvFiles, lmFiles, pc, force, todo, pos, apps,
          senders_df, run, mailed, remailed, picks, sentOK, failed, reached,
          skipped, wrote, written, overwrote, textCalls, done>>

store == <<profiles, summaries, joboffers, applications, sentAtCol,
           sendersSheet, senders>>
files == <<cvFiles, lmFiles>>
made == <<written, overwrote, textCalls>>
hist == <<mailed, remailed, picks, sentOK, failed, reached, skipped, wrote,
          made>>

\* ---------------------------------------------------------- file names
\* CV_DIR / f"CV_{nom.upper()}_{prenom}.pdf"
CvFile(p) == <<"CV", Upper(ProfNom(p)), ProfPrenom(p)>>
\* LM_DIR / f"LM_{nom.upper()}_{prenom}_{job_id}.pdf"
LmFile(p, j) == <<"LM", Upper(ProfNom(p)), ProfPrenom(p), j>>

\* ------------------------------------------------------------ reading
\* _read("applications"): every cell through fillna("")
ReadApps ==
  [i \in AppIds |->
     [profile_id |-> RowProfile(i),
      job_id |-> RowJob(i),
      generate_lm |-> FillNa(applications[i].generate_lm),
      email_sent |-> FillNa(applications[i].email_sent),
      sent_at |-> IF sentAtCol THEN FillNa(applications[i].sent_at) ELSE ""]]

\* the index labels i..n that are in keep, in table order (boolean-mask
\* indexing of a DataFrame keeps the row order)
RECURSIVE RowsFrom(_, _, _)
RowsFrom(keep, i, n) ==
  IF i > n THEN <<>>
  ELSE (IF i \in keep THEN <<i>> ELSE <<>>) \o RowsFrom(keep, i + 1, n)

\* letter_generator: mask_no_email and todo
LetterSelected(t, i) ==
  /\ Upper(t[i].generate_lm) = "Y"
  /\ Strip(t[i].email_sent) = ""
LetterTodo(t) == RowsFrom({i \in AppIds : LetterSelected(t, i)}, 1, NApps)

\* the dispatcher's selection with the generate_lm test left out
MailSelected_NoFlag(t, i) == Strip(t[i].email_sent) = ""

\* email_sender: mask_no_email and todo
MailSelected(t, i) ==
  /\ Upper(t[i].generate_lm) = "Y"
  /\ Strip(t[i].email_sent) = ""
MailTodo(t) == RowsFrom({i \in AppIds : MailSelected(t, i)}, 1, NApps)

\* ------------------------------------------------------------ Init
\* a stored row with cells c; a row marked sent carries its timestamp
StoredRow(c) ==
  [generate_lm |-> c[1], email_sent |-> c[2],
   sent_at |-> IF c[2] = "YES" THEN FirstStamp ELSE NaN]

InitRun ==
  [phase |-> "none", result |-> "none", saved |-> FALSE, again |-> FALSE]

NoHist ==
  /\ picks = [a \in AccountIds |-> 0]
  /\ sentOK = {}
  /\ failed = {}
  /\ reached = {}
  /\ skipped = {}
  /\ wrote = {}
  /\ written = {}
  /\ overwrote = {}
  /\ textCalls = {}

\* The workbook before a run: every application is a fresh one except for
\* one row, which has any of the forms of RowCells; profile 2 may have no
\* record; every job_id has its record in sheet joboffers; the senders
\* sheet is missing or holds two accounts with any counters up to the
\* limit; the PDF folders are empty or hold the PDFs of earlier runs; the
\* record of profile 1 has its profil_pro, that of profile 2 has none.
Init ==
  /\ profiles \in {{1, 2}, {1}}
  /\ summaries = [p \in ProfileIds |-> IF p = 1 THEN SummaryText ELSE NaN]
  /\ joboffers = {RowJob(i) : i \in AppIds}
  /\ \E odd \in AppIds, c \in RowCells :
       applications = [i \in AppIds |-> StoredRow(IF i = odd THEN c ELSE Pending)]
  /\ sentAtCol = (\E i \in AppIds : applications[i].email_sent = "YES")
  /\ sendersSheet \in BOOLEAN
  /\ senders \in [AccountIds -> {[daily_limit |-> DailyLimit, sent_today |-> s] :
                                 s \in 0..DailyLimit}]
  /\ (~sendersSheet => \A a \in AccountIds : senders[a].sent_today = 0)
  /\ \/ cvFiles = {} /\ lmFiles = {}
     \/ /\ cvFiles = {CvFile(p) : p \in ProfileIds}
        /\ lmFiles = {LmFile(RowProfile(i), RowJob(i)) : i \in AppIds}
  /\ pc = "idle"
  /\ force = FALSE
  /\ todo = <<>>
  /\ pos = 1
  /\ apps = ReadApps
  /\ senders_df = None
  /\ run = InitRun
  /\ mailed = {}
  /\ remailed = {}
  /\ NoHist
  /\ done = {}

\* ================================================= send_applications
\* the row the loop is at, and its profile and job
Row == todo[pos]
InLoop(phase) == pc = phase /\ pos <= Len(todo)

\* profs.loc[profs.profile_id == row.profile_id].squeeze() is a record
\* only when the sheet has the profile; on an empty selection squeeze()
\* returns the empty frame and profil.nom.upper() raises AttributeError
HasProfile(i) == RowProfile(i) \in profiles

\* the guard with "or" in place of "and"
HasPdfs_Either(i) ==
  \/ CvFile(RowProfile(i)) \in cvFiles
  \/ LmFile(RowProfile(i), RowJob(i)) \in lmFiles

\* cv_pdf and lm_pdf.exists()
HasPdfs(i) ==
  /\ CvFile(RowProfile(i)) \in cvFiles
  /\ LmFile(RowProfile(i), RowJob(i)) \in lmFiles

\* pick_sender: df = _read("senders"), numeric columns as int
ReadSenders ==
  [a \in AccountIds |->
     [daily_limit |-> senders[a].daily_limit,
      sent_today |-> senders[a].sent_today]]

\* the quota filter with <= in place of <
Avail_Inclusive(df) ==
  {a \in AccountIds : df[a].sent_today <= df[a].daily_limit}

\* pick_sender: avail = df[df.sent_today < df.daily_limit]
Avail(df) == {a \in AccountIds : df[a].sent_today < df[a].daily_limit}

\* pick_sender: avail.sort_values("sent_today").iloc[0]; sort_values uses
\* quicksort, which is not stable, so any account with the least counter
\* can come first
Lowest(df) ==
  {a \in Avail(df) :
     \A b \in Avail(df) : df[a].sent_today <= df[b].sent_today}

\* pick_sender: df.loc[snd.name, "sent_today"] += 1
Bump(df, a) == [df EXCEPT ![a].sent_today = @ + 1]

\* the success branch with the timestamp assignment left out
MarkSent_NoStamp(t, i, ts) == [t EXCEPT ![i].email_sent = "YES"]

\* send_applications: the two tracking columns after a successful send
MarkSent(t, i, ts) == [t EXCEPT ![i].email_sent = "YES", ![i].sent_at = ts]

\* DataFrame.to_excel of apps: the stored cells
WriteApps(t) ==
  [i \in AppIds |->
     [generate_lm |-> ToCell(t[i].generate_lm),
      email_sent |-> ToCell(t[i].email_sent),
      sent_at |-> ToCell(t[i].sent_at)]]

StartRun(phase) ==
  [phase |-> phase, result |-> "running", saved |-> FALSE,
   again |-> phase \in done]

ResetHist ==
  /\ picks' = [a \in AccountIds |-> 0]
  /\ sentOK' = {}
  /\ failed' = {}
  /\ reached' = {}
  /\ skipped' = {}
  /\ wrote' = {}
  /\ written' = {}
  /\ overwrote' = {}
  /\ textCalls' = {}

\* lines 151-166: read the sheets, add sent_at, select; return when todo
\* is empty
SendStart(f) ==
  /\ pc = "idle"
  /\ force' = f
  /\ apps' = ReadApps
  /\ todo' = MailTodo(ReadApps)
  /\ pos' = 1
  /\ senders_df' = None
  /\ IF MailTodo(ReadApps) = <<>>
       THEN pc' = "idle" /\ run' = [StartRun("send") EXCEPT !.result = "empty"]
       ELSE pc' = "send" /\ run' = StartRun("send")
  /\ ResetHist
  /\ UNCHANGED <<store, files, mailed, remailed, done>>

\* lines 172-178: the profile has no record; AttributeError leaves
\* send_applications before the sheets are written
SendMissingProfile ==
  /\ InLoop("send")
  /\ ~HasProfile(Row)
  /\ pc' = "idle"
  /\ run' = [run EXCEPT !.result = "crashed"]
  /\ reached' = reached \cup {Row}
  /\ UNCHANGED <<store, files, force, todo, pos, apps, senders_df, mailed,
                 remailed, picks, sentOK, failed, skipped, wrote, made, done>>

\* the missing-PDF branch if pick_sender were called ahead of the test
SendMissingPdf_PicksFirst ==
  /\ InLoop("send")
  /\ HasProfile(Row)
  /\ ~HasPdfs(Row)
  /\ IF sendersSheet
       THEN \E a \in Lowest(ReadSenders) :
              /\ senders_df' = Bump(ReadSenders, a)
              /\ picks' = [picks EXCEPT ![a] = @ + 1]
       ELSE senders_df' = None /\ UNCHANGED picks
  /\ pos' = pos + 1
  /\ reached' = reached \cup {Row}
  /\ skipped' = skipped \cup {Row}
  /\ UNCHANGED <<store, files, pc, force, todo, apps, run, mailed, remailed,
                 sentOK, failed, wrote, made, done>>

\* lines 181-183: a PDF is missing, continue
SendMissingPdf ==
  /\ InLoop("send")
  /\ HasProfile(Row)
  /\ ~HasPdfs(Row)
  /\ pos' = pos + 1
  /\ reached' = reached \cup {Row}
  /\ skipped' = skipped \cup {Row}
  /\ UNCHANGED <<store, files, pc, force, todo, apps, senders_df, run,
                 mailed, remailed, picks, sentOK, failed, wrote, made, done>>

\* lines 78-80 and 196: every quota is reached; RuntimeError is not among
\* the exceptions pick_sender handles and line 196 is outside the try
SendExhausted ==
  /\ InLoop("send")
  /\ HasProfile(Row)
  /\ HasPdfs(Row)
  /\ sendersSheet
  /\ Avail(ReadSenders) = {}
  /\ pc' = "idle"
  /\ run' = [run EXCEPT !.result = "exhausted"]
  /\ reached' = reached \cup {Row}
  /\ UNCHANGED <<store, files, force, todo, pos, apps, senders_df, mailed,
                 remailed, picks, sentOK, failed, skipped, wrote, made, done>>

\* line 196: what pick_sender returns for account a: (snd, df), or
\* (environment account, None) when the sheet is missing (a = 0)
Picked(a) ==
  IF sendersSheet
    THEN /\ a \in Lowest(ReadSenders)
         /\ senders_df' = Bump(ReadSenders, a)
         /\ picks' = [picks EXCEPT ![a] = @ + 1]
    ELSE /\ a = 0
         /\ senders_df' = None
         /\ UNCHANGED picks

\* lines 196-214: the message is transmitted and the row is marked
SendOk(a, ts) ==
  /\ InLoop("send")
  /\ HasProfile(Row)
  /\ HasPdfs(Row)
  /\ Picked(a)
  /\ mailed' = mailed \cup {Row}
  /\ remailed' = IF Row \in mailed THEN remailed \cup {Row} ELSE remailed
  /\ apps' = MarkSent(apps, Row, ts)
  /\ sentOK' = sentOK \cup {Row}
  /\ reached' = reached \cup {Row}
  /\ pos' = pos + 1
  /\ UNCHANGED <<store, files, pc, force, todo, run, failed, skipped, wrote, made, done>>

\* lines 196-219: send_email raises; break unless force
SendFail(a) ==
  /\ InLoop("send")
  /\ HasProfile(Row)
  /\ HasPdfs(Row)
  /\ Picked(a)
  /\ failed' = failed \cup {Row}
  /\ reached' = reached \cup {Row}
  /\ IF force
       THEN pos' = pos + 1 /\ UNCHANGED run
       ELSE pos' = Len(todo) + 1 /\ run' = [run EXCEPT !.result = "aborted"]
  /\ UNCHANGED <<store, files, pc, force, todo, apps, mailed, remailed, sentOK,
                 skipped, wrote, made, done>>

\* lines 224-227: the loop is over, write applications and, in
\* multi-account mode, senders
SendSave ==
  /\ pc = "send"
  /\ pos > Len(todo)
  /\ applications' = WriteApps(apps)
  /\ sentAtCol' = TRUE
  /\ senders' = IF senders_df # None THEN senders_df ELSE senders
  /\ pc' = "idle"
  /\ run' = [run EXCEPT !.saved = TRUE,
                        !.result = IF @ = "aborted" THEN @ ELSE "completed"]
  /\ UNCHANGED <<profiles, summaries, joboffers, sendersSheet, files, force,
                 todo, pos, apps, senders_df, hist, done>>

Send ==
  \/ \E f \in BOOLEAN : SendStart(f)
  \/ SendMissingProfile
  \/ SendMissingPdf
  \/ SendExhausted
  \/ \E a \in AccountIds \cup {0}, ts \in Stamps : SendOk(a, ts)
  \/ \E a \in AccountIds \cup {0} : SendFail(a)
  \/ SendSave

\* ================================================== generate_letters
\* lines 72-82: read the sheets, select; return when todo is empty
LmStart(f) ==
  /\ pc = "idle"
  /\ force' = f
  /\ todo' = LetterTodo(ReadApps)
  /\ pos' = 1
  /\ IF LetterTodo(ReadApps) = <<>>
       THEN pc' = "idle" /\ run' = [StartRun("lm") EXCEPT !.result = "empty"]
       ELSE pc' = "lm" /\ run' = StartRun("lm")
  /\ ResetHist
  /\ UNCHANGED <<store, files, apps, senders_df, mailed, remailed, done>>

\* lines 91-94: the profile has no record; AttributeError ends the run
LmMissingProfile ==
  /\ InLoop("lm")
  /\ ~HasProfile(Row)
  /\ pc' = "idle"
  /\ run' = [run EXCEPT !.result = "crashed"]
  /\ reached' = reached \cup {Row}
  /\ UNCHANGED <<store, files, force, todo, pos, apps, senders_df, mailed,
                 remailed, picks, sentOK, failed, skipped, wrote, made, done>>

\* the skip if the text were requested ahead of the test, as the summary
\* is in generate_cvs
LmSkip_CallsFirst ==
  /\ InLoop("lm")
  /\ HasProfile(Row)
  /\ LmFile(RowProfile(Row), RowJob(Row)) \in lmFiles
  /\ ~force
  /\ pos' = pos + 1
  /\ reached' = reached \cup {Row}
  /\ skipped' = skipped \cup {Row}
  /\ textCalls' = textCalls \cup {Row}
  /\ UNCHANGED <<store, files, pc, force, todo, apps, senders_df, run,
                 mailed, remailed, picks, sentOK, failed, wrote, written,
                 overwrote, done>>

\* lines 95-97: the letter exists and force is false, continue
LmSkip ==
  /\ InLoop("lm")
  /\ HasProfile(Row)
  /\ LmFile(RowProfile(Row), RowJob(Row)) \in lmFiles
  /\ ~force
  /\ pos' = pos + 1
  /\ reached' = reached \cup {Row}
  /\ skipped' = skipped \cup {Row}
  /\ UNCHANGED <<store, files, pc, force, todo, apps, senders_df, run,
                 mailed, remailed, picks, sentOK, failed, wrote, made, done>>

\* lines 100-113: the text is generated and the PDF written
LmWrite ==
  /\ InLoop("lm")
  /\ HasProfile(Row)
  /\ (LmFile(RowProfile(Row), RowJob(Row)) \notin lmFiles \/ force)
  /\ lmFiles' = lmFiles \cup {LmFile(RowProfile(Row), RowJob(Row))}
  /\ pos' = pos + 1
  /\ reached' = reached \cup {Row}
  /\ wrote' = wrote \cup {Row}
  /\ textCalls' = textCalls \cup {Row}
  /\ written' = written \cup {LmFile(RowProfile(Row), RowJob(Row))}
  /\ overwrote' = overwrote \cup
                    ({LmFile(RowProfile(Row), RowJob(Row))} \cap lmFiles)
  /\ UNCHANGED <<store, cvFiles, pc, force, todo, apps, senders_df, run,
                 mailed, remailed, picks, sentOK, failed, skipped, done>>

\* line 100: the text-generation request raises; nothing catches it
LmTextFails ==
  /\ InLoop("lm")
  /\ HasProfile(Row)
  /\ (LmFile(RowProfile(Row), RowJob(Row)) \notin lmFiles \/ force)
  /\ pc' = "idle"
  /\ run' = [run EXCEPT !.result = "crashed"]
  /\ reached' = reached \cup {Row}
  /\ textCalls' = textCalls \cup {Row}
  /\ UNCHANGED <<store, files, force, todo, pos, apps, senders_df, mailed,
                 remailed, picks, sentOK, failed, skipped, wrote, written,
                 overwrote, done>>

\* line 116: the loop is over, the temporary file is removed
LmEnd ==
  /\ pc = "lm"
  /\ pos > Len(todo)
  /\ pc' = "idle"
  /\ run' = [run EXCEPT !.result = "completed"]
  /\ done' = done \cup {"lm"}
  /\ UNCHANGED <<store, files, force, todo, pos, apps, senders_df, hist>>

Letters ==
  \/ \E f \in BOOLEAN : LmStart(f)
  \/ LmMissingProfile
  \/ LmSkip
  \/ LmWrite
  \/ LmTextFails
  \/ LmEnd

\* ====================================================== generate_cvs
\* the profiles sheet: profil_pro of profile p is empty
\* _clean: a cell that reads nan, none or blank becomes ""
Clean(c) == IF c \in {NaN, "none", "", " "} THEN "" ELSE c

\* line 76: not profile["profil_pro"], on the cleaned record
SummaryBlank(p) == Clean(FillNa(summaries[p])) = ""

\* lines 69-72: the records of the profiles sheet, in sheet order
CvStart(f) ==
  /\ pc = "idle"
  /\ force' = f
  /\ todo' = RowsFrom(profiles, 1, Cardinality(ProfileIds))
  /\ pos' = 1
  /\ pc' = "cv"
  /\ run' = StartRun("cv")
  /\ ResetHist
  /\ UNCHANGED <<store, files, apps, senders_df, mailed, remailed, done>>

\* lines 76-77: the summary request raises; nothing catches it
CvTextFails ==
  /\ InLoop("cv")
  /\ SummaryBlank(Row)
  /\ pc' = "idle"
  /\ run' = [run EXCEPT !.result = "crashed"]
  /\ UNCHANGED <<store, files, force, todo, pos, apps, senders_df, hist,
                 done>>

\* lines 82-84: the resume exists and force is false, continue
CvSkip ==
  /\ InLoop("cv")
  /\ CvFile(Row) \in cvFiles
  /\ ~force
  /\ pos' = pos + 1
  /\ UNCHANGED <<store, files, pc, force, todo, apps, senders_df, run, hist,
                 done>>

\* the resume written without looking at the folder or at force
CvWrite_Always ==
  /\ InLoop("cv")
  /\ cvFiles' = cvFiles \cup {CvFile(Row)}
  /\ pos' = pos + 1
  /\ written' = written \cup {CvFile(Row)}
  /\ overwrote' = overwrote \cup ({CvFile(Row)} \cap cvFiles)
  /\ UNCHANGED <<store, lmFiles, pc, force, todo, apps, senders_df, run,
                 mailed, remailed, picks, sentOK, failed, reached, skipped,
                 wrote, textCalls, done>>

\* lines 87-90: the resume is rendered and written
CvWrite ==
  /\ InLoop("cv")
  /\ (CvFile(Row) \notin cvFiles \/ force)
  /\ cvFiles' = cvFiles \cup {CvFile(Row)}
  /\ pos' = pos + 1
  /\ written' = written \cup {CvFile(Row)}
  /\ overwrote' = overwrote \cup ({CvFile(Row)} \cap cvFiles)
  /\ UNCHANGED <<store, lmFiles, pc, force, todo, apps, senders_df, run,
                 mailed, remailed, picks, sentOK, failed, reached, skipped,
                 wrote, textCalls, done>>

\* the end of generate_cvs if it stored the generated summaries
CvEnd_SavesSummaries ==
  /\ pc = "cv"
  /\ pos > Len(todo)
  /\ pc' = "idle"
  /\ run' = [run EXCEPT !.result = "completed"]
  /\ done' = done \cup {"cv"}
  /\ summaries' = [p \in ProfileIds |->
                     IF SummaryBlank(p) THEN SummaryText ELSE summaries[p]]
  /\ UNCHANGED <<profiles, joboffers, applications, sentAtCol, sendersSheet,
                 senders, files, force, todo, pos, apps, senders_df, hist>>

\* line 93: the loop is over, the temporary file is removed
CvEnd ==
  /\ pc = "cv"
  /\ pos > Len(todo)
  /\ pc' = "idle"
  /\ run' = [run EXCEPT !.result = "completed"]
  /\ done' = done \cup {"cv"}
  /\ UNCHANGED <<store, files, force, todo, pos, apps, senders_df, hist>>

Resumes ==
  \/ \E f \in BOOLEAN : CvStart(f)
  \/ CvTextFails
  \/ CvSkip
  \/ CvWrite
  \/ CvEnd

Next == Resumes \/ Letters \/ Send

Spec == Init /\ [][Next]_vars

\* ================================================================ claims
\* the rows of the running / last loop
TodoRows == {todo[k] : k \in DOMAIN todo}
SendRun == run.phase = "send"
\* a cell the selection treats as blank / a flag it treats as set
Blank(c) == c \in {NaN, "", " "}
Truthy(c) == c \in {"Y", "y"}
\* an account's counter as the sheet stores it plus its selections of this run
Eff(a) == senders[a].sent_today + picks[a]

\* C1: an application whose e-mail was transmitted is never selected by a
\* later dispatcher run and never e-mailed a second time, also when a run
\* stopped part-way.
C1_SentIsTerminal ==
  /\ remailed = {}
  /\ SendRun => \A i \in TodoRows : i \in mailed => i \in sentOK

\* C2: during a dispatcher run every account's stored counter plus its
\* selections of the run stays within its daily limit (each selection found
\* the counter strictly below the limit).
C2_QuotaRespected ==
  (pc = "send" /\ sendersSheet) =>
    \A a \in AccountIds : Eff(a) <= senders[a].daily_limit

\* C3: every pick_sender call of a run chooses an account whose counter,
\* earlier selections of the run included, is the least among the accounts
\* that are still under their limit.
C3_RotatesOnRunCounters ==
  [][\A a \in AccountIds :
       (pc = "send" /\ picks'[a] = picks[a] + 1) =>
         \A b \in AccountIds :
           Eff(b) < senders[b].daily_limit => Eff(a) <= Eff(b)]_vars

\* C4: in a dispatcher run a row whose send succeeded has email_sent set and
\* a non-blank sent_at in the run's table, every other row has the cells it
\* was read with; the final write stores exactly that (sent rows marked,
\* the other rows' stored cells unchanged).
C4_TableInRun ==
  SendRun =>
    \A i \in AppIds :
      IF i \in sentOK
        THEN ~Blank(apps[i].email_sent) /\ ~Blank(apps[i].sent_at)
        ELSE apps[i] = ReadApps[i]
C4_Written ==
  (pc = "send" /\ pc' = "idle" /\ run'.saved) =>
    \A i \in AppIds :
      IF i \in sentOK
        THEN ~Blank(applications'[i].email_sent) /\ ~Blank(applications'[i].sent_at)
        ELSE applications'[i] = applications[i]
\* C4: sent rows are marked and stamped, all other rows keep their cells,
\* in the run's table and in what the run writes.
C4_MarkedIffSent == []C4_TableInRun /\ [][C4_Written]_vars

\* C4 witness: a run that was written, with one row sent and another row of
\* its selection not sent.
C4_Witness ==
  /\ SendRun /\ run.saved
  /\ sentOK # {}
  /\ (failed \cup skipped) # {}

\* C5: a dispatcher run that found pending applications and ended by
\* completing its loop, by a fail-fast abort or by quota exhaustion has
\* written the sheets.
C5_RunPersists ==
  (SendRun /\ pc = "idle" /\ run.result \in {"completed", "aborted", "exhausted"})
    => run.saved

\* C6: the final write of a multi-account run stores, for every account,
\* the counter the run started with plus the run's selections of it.
C6_CountersPersisted ==
  [][(pc = "send" /\ pc' = "idle" /\ run'.saved /\ sendersSheet) =>
       \A a \in AccountIds : senders'[a].sent_today = Eff(a)]_vars

\* C7: at the end of a dispatcher run, a row whose send raised is unmarked;
\* without force no later row of the selection was handled, with force
\* every later row of the selection was handled and is marked if its send
\* succeeded.
C7_FailFastOrForce ==
  (SendRun /\ pc = "idle") =>
    \A k \in DOMAIN todo :
      todo[k] \in failed =>
        /\ Blank(apps[todo[k]].email_sent)
        /\ \A m \in DOMAIN todo :
             m > k =>
               IF force
                 THEN /\ todo[m] \in reached
                      /\ todo[m] \in sentOK => ~Blank(apps[todo[m]].email_sent)
                 ELSE todo[m] \notin reached

\* C8: a selected row whose profile has no record is skipped and the run
\* (Letter Builder or Dispatcher) goes on to its end-of-run steps.
C8_MissingRecordSkipped ==
  run.phase \in {"lm", "send"} =>
    \A i \in reached :
      ~HasProfile(i) => (i \in skipped /\ run.result # "crashed")

\* C9: with the senders sheet present and every account at its limit,
\* pick_sender raises: the run ends there "exhausted", nothing is
\* transmitted, no counter and no row changes, no later row is handled;
\* and a run ends "exhausted" only in that case.
C9_AllAtLimit ==
  sendersSheet /\ \A a \in AccountIds : senders[a].sent_today >= senders[a].daily_limit
C9_Step ==
  (InLoop("send") /\ HasProfile(Row) /\ HasPdfs(Row) /\ C9_AllAtLimit) =>
    /\ pc' = "idle"
    /\ run'.result = "exhausted"
    /\ UNCHANGED <<store, files, apps, senders_df, mailed, remailed, picks,
                   sentOK, failed, pos>>
C9_Ended ==
  run.result = "exhausted" =>
    /\ pc = "idle"
    /\ C9_AllAtLimit
    /\ senders_df = None
    /\ sentOK = {} /\ failed = {}
    /\ \A a \in AccountIds : picks[a] = 0
    /\ \A k \in DOMAIN todo : k > pos => todo[k] \notin reached
\* C9: quota exhaustion raises out of the dispatcher and changes nothing.
C9_Exhaustion == []C9_Ended /\ [][C9_Step]_vars

\* C9 witness: a run ended by exhaustion with later rows of its selection
\* left unhandled.
C9_Witness ==
  /\ SendRun /\ run.result = "exhausted"
  /\ pos < Len(todo)

\* C10: both selections are the rows with generate_lm set and email_sent
\* blank; the loops handle rows of their selection only; a row whose
\* generate_lm is not set is never handled, mailed or written a letter, and
\* its stored cells never change.
C10_Eligible(i) ==
  /\ Truthy(applications[i].generate_lm)
  /\ Blank(applications[i].email_sent)
C10_Selection ==
  /\ LetterTodo(ReadApps) = MailTodo(ReadApps)
  /\ \A i \in AppIds : MailSelected(ReadApps, i) <=> C10_Eligible(i)
  /\ pc \in {"lm", "send"} => TodoRows = {i \in AppIds : C10_Eligible(i)}
  /\ run.phase \in {"lm", "send"} =>
       /\ (reached \cup wrote \cup sentOK \cup failed) \subseteq TodoRows
       /\ \A i \in TodoRows : Truthy(applications[i].generate_lm)
  /\ \A i \in mailed : Truthy(applications[i].generate_lm)
C10_Frame ==
  \A i \in AppIds :
    ~Truthy(applications[i].generate_lm) => applications'[i] = applications[i]
\* C10: both phases select generate_lm set and email_sent blank, and leave
\* every other row alone.
C10_SelectionPredicate == []C10_Selection /\ [][C10_Frame]_vars

\* C10 witness: a written dispatcher run that sent a row while a row with
\* generate_lm "N", a blank email_sent and both PDFs on disk was left alone.
C10_Witness ==
  /\ SendRun /\ run.saved /\ sentOK # {}
  /\ \E i \in AppIds :
       /\ applications[i].generate_lm = "N"
       /\ applications[i].email_sent = NaN
       /\ HasProfile(i) /\ HasPdfs(i)

\* C11: a resume or letter PDF of row i is not on disk
C11_Absent(i) ==
  \/ CvFile(RowProfile(i)) \notin cvFiles
  \/ LmFile(RowProfile(i), RowJob(i)) \notin lmFiles
C11_Step ==
  (InLoop("send") /\ C11_Absent(Row)) =>
    /\ UNCHANGED <<mailed, remailed, apps, applications, sentOK>>
    /\ HasProfile(Row) =>
         /\ pc' = "send"
         /\ pos' = pos + 1
         /\ Row \in skipped'
C11_State ==
  SendRun =>
    /\ \A i \in skipped :
         /\ C11_Absent(i)
         /\ i \notin (sentOK \cup failed)
         /\ Blank(apps[i].email_sent) /\ Blank(apps[i].sent_at)
    /\ \A i \in sentOK \cup failed : ~C11_Absent(i)
\* C11: the dispatcher sends nothing for a pending row with a PDF missing
\* and leaves its email_sent and sent_at blank, also when the other PDF
\* exists; when the row's profile has a record the loop goes on to the next
\* row (a row whose profile has no record is the case of C8).
C11_MissingPdfGuard == []C11_State /\ [][C11_Step]_vars

\* C11 witness: a written run that skipped a row whose letter exists and
\* whose resume does not, and sent a later row.
C11_Witness ==
  /\ SendRun /\ run.saved
  /\ \E k, m \in DOMAIN todo :
       /\ k < m
       /\ todo[k] \in skipped
       /\ CvFile(RowProfile(todo[k])) \notin cvFiles
       /\ LmFile(RowProfile(todo[k]), RowJob(todo[k])) \in lmFiles
       /\ todo[m] \in sentOK

\* ------------------------------------------------------------------ C12
\* C12: the only sheets any phase writes are applications and senders, and
\* only the dispatcher's save writes them: no step of generate_cvs or
\* generate_letters changes a sheet (a generated summary is not stored), and
\* the profiles and joboffers sheets never change.
C12_Frame ==
  /\ UNCHANGED <<profiles, summaries, joboffers, sendersSheet>>
  /\ pc \in {"cv", "lm"} => UNCHANGED store
  /\ ~UNCHANGED <<applications, sentAtCol, senders>> =>
        /\ pc = "send"
        /\ pos > Len(todo)
        /\ run'.phase = "send"
        /\ run'.saved

C12_OnlyDispatcherWrites == [][C12_Frame]_vars

\* a resume was written for the profile whose summary had to be generated,
\* the run ended, the summary cell is still empty, and the dispatcher has
\* written both of its sheets before
C12_Witness ==
  /\ run.phase = "cv"
  /\ run.result = "completed"
  /\ CvFile(2) \in written
  /\ summaries[2] = NaN
  /\ mailed # {}
  /\ \E a \in AccountIds : senders[a].sent_today > 0
  /\ \E i \in AppIds : applications[i].email_sent = "YES" /\ i \in mailed

\* ------------------------------------------------------------------ C13
\* a run of a builder without force, after a run of that builder that went
\* through its whole list
C13_SecondRun == run.phase \in {"cv", "lm"} /\ run.again /\ ~force

\* no step of such a run changes the folders
C13_Step == (pc \in {"cv", "lm"} /\ C13_SecondRun) => UNCHANGED files

\* without force no existing PDF is rewritten; a second run writes none and
\* the letter builder skips every row it handles
C13_State ==
  /\ (run.phase \in {"cv", "lm"} /\ ~force) => overwrote = {}
  /\ C13_SecondRun =>
        /\ written = {}
        /\ wrote = {}
        /\ run.result # "crashed" \/ run.phase = "cv"
        /\ run.phase = "lm" => reached = skipped

\* C13: resume and letter generation run again without force write no PDF:
\* every PDF of the first run is skipped, so the folders hold the same files
\* with the same contents as after the first run.
C13_BuildersIdempotent == []C13_State /\ [][C13_Step]_vars

\* both builders have run to their end, and a second letter run without
\* force has gone through its whole list skipping every row
C13_Witness ==
  /\ C13_SecondRun
  /\ run.phase = "lm"
  /\ run.result = "completed"
  /\ "cv" \in done
  /\ Len(todo) >= 2
  /\ skipped = TodoRows
  /\ written = {}
  /\ \A i \in TodoRows : LmFile(RowProfile(i), RowJob(i)) \in lmFiles

\* ------------------------------------------------------------------ C14
\* the step taken on a row with a PDF missing: no account is picked, no
\* counter moves, the loop is not left
C14_Step ==
  (InLoop("send") /\ HasProfile(Row) /\ C11_Absent(Row)) =>
    /\ UNCHANGED <<picks, senders_df, senders>>
    /\ run'.result # "exhausted"
    /\ pc' = "send"
    /\ Row \in skipped'

\* one pick per row handed to send_email and none for a skipped row; the
\* row on which the run ended exhausted has both PDFs
C14_State ==
  SendRun =>
    /\ skipped \cap (sentOK \cup failed) = {}
    /\ sendersSheet =>
          picks[1] + picks[2] = Cardinality(sentOK \cup failed)
    /\ ~sendersSheet => picks[1] + picks[2] = 0
    /\ run.result = "exhausted" =>
          /\ ~C11_Absent(todo[pos])
          /\ todo[pos] \notin skipped

\* C14: an application the dispatcher skips for a missing PDF uses no
\* sender quota: pick_sender is not called for it, no sent_today counter is
\* incremented and no exhaustion error is raised for it.
C14_SkipUsesNoQuota == []C14_State /\ [][C14_Step]_vars

\* every account was at its limit when the first row was skipped for a
\* missing PDF: nothing was picked, and the error came only with the next
\* row, which has both PDFs
C14_Witness ==
  /\ SendRun
  /\ run.result = "exhausted"
  /\ pos = 2
  /\ todo[1] \in skipped
  /\ picks[1] + picks[2] = 0
  /\ \A a \in AccountIds : senders[a].sent_today >= senders[a].daily_limit

\* ------------------------------------------------------------------ C15
\* a step of generate_letters that requests a text does so for the row at
\* hand, whose letter is absent or forced
C15_Step ==
  (pc = "lm" /\ textCalls' # textCalls) =>
    /\ InLoop("lm")
    /\ textCalls' = textCalls \cup {Row}
    /\ HasProfile(Row)
    /\ LmFile(RowProfile(Row), RowJob(Row)) \notin lmFiles \/ force
    /\ Row \notin skipped'
    /\ Row \in wrote' \/ run'.result = "crashed"

\* the rows a text was requested for are selected rows, none of them
\* skipped, each one written unless the request itself raised and ended the
\* run; a later run without force requests none
C15_State ==
  run.phase = "lm" =>
    /\ textCalls \subseteq TodoRows
    /\ textCalls \cap skipped = {}
    /\ wrote \subseteq textCalls
    /\ \A i \in textCalls \ wrote : run.result = "crashed" /\ i = todo[pos]
    /\ (run.again /\ ~force) => textCalls = {}

\* C15: generate_letters requests a letter text only for a selected
\* application whose letter it then writes (PDF absent, or force), never for
\* one it skips; a second run without force requests no letter text.
C15_TextOnlyWhenWritten == []C15_State /\ [][C15_Step]_vars

\* a run without force that skipped one row and wrote another: the only
\* text requested is the one of the letter written
C15_Witness ==
  /\ run.phase = "lm"
  /\ run.result = "completed"
  /\ ~force
  /\ skipped # {}
  /\ wrote # {}
  /\ textCalls = wrote
  /\ \A i \in skipped : LmFile(RowProfile(i), RowJob(i)) \in lmFiles \ written
====
